---- MODULE Spec2Model ----
(***************************************************************************)
(* A model of file_organizer.py: the extension classifier                  *)
(* (get_category_for_extension over FILE_CATEGORIES) and the traversal     *)
(* loop of organize_files_by_type, run over a small filesystem.            *)
(*                                                                         *)
(* Strings whose characters matter (extensions, directory names) are       *)
(* spelled as tuples of one-character strings.  Three characters outside   *)
(* ASCII are written by name: "DOTLESS_I" (U+0131), "LONG_S" (U+017F) and  *)
(* "KELVIN" (U+212A).                                                      *)
(***************************************************************************)
EXTENDS Integers, Sequences, FiniteSets, TLC

(***************************************************************************)
(* Bounds of the model.                                                    *)
(***************************************************************************)
MaxFiles == 3

MaxTime == 1

MaxFaults == 1

MaxExtLen == 3

(***************************************************************************)
(* Characters and Python's str.lower / str.upper.                          *)
(***************************************************************************)
Letters ==
    << "a","b","c","d","e","f","g","h","i","j","k","l","m",
       "n","o","p","q","r","s","t","u","v","w","x","y","z" >>

Capitals ==
    << "A","B","C","D","E","F","G","H","I","J","K","L","M",
       "N","O","P","Q","R","S","T","U","V","W","X","Y","Z" >>

IndexIn(seq, c) == CHOOSE i \in DOMAIN seq : seq[i] = c

IsIn(seq, c) == \E i \in DOMAIN seq : seq[i] = c

\* str.lower() on one character: A-Z to a-z, the Kelvin sign to k; the
\* dotless i and the long s are lower-case letters already.
LowerChar(c) ==
    IF IsIn(Capitals, c) THEN Letters[IndexIn(Capitals, c)]
    ELSE IF c = "KELVIN" THEN "k"
    ELSE c

\* str.upper() on one character: a-z to A-Z, the dotless i to I, the long s
\* to S; the Kelvin sign is an upper-case letter already.
UpperChar(c) ==
    IF IsIn(Letters, c) THEN Capitals[IndexIn(Letters, c)]
    ELSE IF c = "DOTLESS_I" THEN "I"
    ELSE IF c = "LONG_S" THEN "S"
    ELSE c

str_lower(s) == [i \in DOMAIN s |-> LowerChar(s[i])]

str_upper(s) == [i \in DOMAIN s |-> UpperChar(s[i])]

\* Python's `needle in hay` on strings.
IsSubstring(needle, hay) ==
    \E k \in 0..(Len(hay) - Len(needle)) :
        \A i \in 1..Len(needle) : hay[k + i] = needle[i]

(***************************************************************************)
(* FILE_CATEGORIES, in declaration order.                                  *)
(***************************************************************************)
Categories ==
    << "Dokumente", "Bilder", "Videos", "Audio", "Archive", "Code",
       "Programme", "Andere" >>

CategoryNames == { Categories[i] : i \in DOMAIN Categories }

FILE_CATEGORIES ==
       "Dokumente" :> {
        <<".","p","d","f">>, <<".","d","o","c">>, <<".","d","o","c","x">>,
        <<".","t","x","t">>, <<".","r","t","f">>, <<".","o","d","t">>,
        <<".","x","l","s">>, <<".","x","l","s","x">>, <<".","p","p","t">>,
        <<".","p","p","t","x">>, <<".","c","s","v">>, <<".","o","d","s">>,
        <<".","o","d","p">> }
    @@ "Bilder" :> {
        <<".","j","p","g">>, <<".","j","p","e","g">>, <<".","p","n","g">>,
        <<".","g","i","f">>, <<".","b","m","p">>, <<".","s","v","g">>,
        <<".","t","i","f","f">>, <<".","i","c","o">>, <<".","w","e","b","p">>,
        <<".","h","e","i","c">>, <<".","r","a","w">>, <<".","p","s","d">>,
        <<".","a","i">> }
    @@ "Videos" :> {
        <<".","m","p","4">>, <<".","m","k","v">>, <<".","a","v","i">>,
        <<".","m","o","v">>, <<".","w","m","v">>, <<".","f","l","v">>,
        <<".","w","e","b","m">>, <<".","m","4","v">>, <<".","m","p","g">>,
        <<".","m","p","e","g">>, <<".","3","g","p">> }
    @@ "Audio" :> {
        <<".","m","p","3">>, <<".","w","a","v">>, <<".","o","g","g">>,
        <<".","f","l","a","c">>, <<".","a","a","c">>, <<".","w","m","a">>,
        <<".","m","4","a">>, <<".","m","i","d">>, <<".","m","i","d","i">> }
    @@ "Archive" :> {
        <<".","z","i","p">>, <<".","r","a","r">>, <<".","7","z">>, <<".","t","a","r">>,
        <<".","g","z">>, <<".","b","z","2">>, <<".","x","z">>, <<".","i","s","o">> }
    @@ "Code" :> {
        <<".","p","y">>, <<".","j","a","v","a">>, <<".","c","p","p">>, <<".","c">>,
        <<".","h">>, <<".","h","p","p">>, <<".","j","s">>, <<".","h","t","m","l">>,
        <<".","c","s","s">>, <<".","p","h","p">>, <<".","r","b">>, <<".","g","o">>,
        <<".","r","s">>, <<".","s","w","i","f","t">>, <<".","k","t">>,
        <<".","j","s","o","n">>, <<".","x","m","l">>, <<".","s","q","l">>,
        <<".","s","h">>, <<".","b","a","t">>, <<".","p","s","1">> }
    @@ "Programme" :> {
        <<".","e","x","e">>, <<".","m","s","i">>, <<".","a","p","p">>,
        <<".","d","m","g">>, <<".","d","e","b">>, <<".","r","p","m">> }
    @@ "Andere" :> {}

\* The lookup without ext.lower().
get_category_case_sensitive(ext) ==
    LET hits == { i \in DOMAIN Categories : ext \in FILE_CATEGORIES[Categories[i]] }
    IN  IF hits = {} THEN "Andere"
        ELSE Categories[CHOOSE i \in hits : \A j \in hits : i <= j]

\* The first category, in declaration order, whose list holds the lower-cased
\* extension; "Andere" when none does.
CategoryOfLowered(e) ==
    LET hits == { i \in DOMAIN Categories : e \in FILE_CATEGORIES[Categories[i]] }
    IN  IF hits = {} THEN "Andere"
        ELSE Categories[CHOOSE i \in hits : \A j \in hits : i <= j]

get_category_for_extension(ext) == CategoryOfLowered(str_lower(ext))

(***************************************************************************)
(* Names.  A directory path is a sequence of segment names, a file name is *)
(* a record [base, suffix, ext]: os.path.splitext(filename) is             *)
(* (base with the suffixes, ext), and "a_17.pdf" is                        *)
(* [base |-> "a", suffix |-> <<17>>, ext |-> ".pdf"].  A file path is      *)
(* <<directory path, file name>>.  Spell gives a name's characters.        *)
(***************************************************************************)
Spell ==
       "src" :> <<"s","r","c">>
    @@ "dst" :> <<"d","s","t">>
    @@ "sub1" :> <<"s","u","b","1">>
    @@ "sub2" :> <<"s","u","b","2">>
    @@ "MyCode" :> <<"M","y","C","o","d","e">>
    @@ "Dokumente" :> <<"D","o","k","u","m","e","n","t","e">>
    @@ "Bilder" :> <<"B","i","l","d","e","r">>
    @@ "Videos" :> <<"V","i","d","e","o","s">>
    @@ "Audio" :> <<"A","u","d","i","o">>
    @@ "Archive" :> <<"A","r","c","h","i","v","e">>
    @@ "Code" :> <<"C","o","d","e">>
    @@ "Programme" :> <<"P","r","o","g","r","a","m","m","e">>
    @@ "Andere" :> <<"A","n","d","e","r","e">>
    @@ "2024-01" :> <<"2","0","2","4","-","0","1">>
    @@ "2024-02" :> <<"2","0","2","4","-","0","2">>
    @@ "2024-03" :> <<"2","0","2","4","-","0","3">>
    @@ ".pdf" :> <<".","p","d","f">>
    @@ ".JPG" :> <<".","J","P","G">>
    @@ ".xyz" :> <<".","x","y","z">>
    @@ "" :> <<>>

\* strftime('%Y-%m') of a modification time; times are counted in months.
DateStr(mtime) == << "2024-01", "2024-02", "2024-03" >>[mtime]

source_dir == << "src" >>

FileName(base, ext) == [base |-> base, suffix |-> << >>, ext |-> ext]

File(content, mtime) == [content |-> content, mtime |-> mtime]

\* The files an initial tree is drawn from: three files in the source root,
\* one "a.pdf" in each of two plain subfolders (the second with either
\* content), one under a folder whose name holds a category name, one under
\* a category folder, and one already at the destination.
Candidates ==
    { << << source_dir, FileName("a", ".pdf") >>, File("X", 1) >>,
      << << source_dir, FileName("b", ".JPG") >>, File("X", 1) >>,
      << << source_dir, FileName("c", ".xyz") >>, File("X", 1) >>,
      << << << "src", "sub1" >>, FileName("a", ".pdf") >>, File("X", 1) >>,
      << << << "src", "sub2" >>, FileName("a", ".pdf") >>, File("X", 1) >>,
      << << << "src", "sub2" >>, FileName("a", ".pdf") >>, File("Y", 2) >>,
      << << << "src", "MyCode" >>, FileName("a", ".pdf") >>, File("X", 1) >>,
      << << << "src", "Bilder" >>, FileName("b", ".JPG") >>, File("X", 1) >>,
      << << << "dst", "Dokumente" >>, FileName("a", ".pdf") >>, File("X", 1) >> }

\* The trees of at most MaxFiles files, no path taken twice.
Trees ==
    { C \in SUBSET Candidates :
        /\ Cardinality(C) <= MaxFiles
        /\ \A c1, c2 \in C : c1[1] = c2[1] => c1 = c2 }

TreeFiles(C) ==
    [p \in { c[1] : c \in C } |-> (CHOOSE c \in C : c[1] = p)[2]]

\* os.scandir lists a directory in an order the filesystem chooses; the
\* model draws it from these listings of all directory names.
DirOrders ==
    { << "2024-01", "2024-02", "2024-03", "Andere", "Archive", "Audio", "Bilder",
         "Code", "Dokumente", "MyCode", "Programme", "Videos", "sub1", "sub2" >>,
      << "sub2", "sub1", "Videos", "Programme", "MyCode", "Dokumente", "Code",
         "Bilder", "Audio", "Archive", "Andere", "2024-03", "2024-02", "2024-01" >> }

Strategies == {"rename", "skip", "replace"}

None == << >>

NoPath == << >>

VARIABLES
    args,          \* destination_dir, preview, include_date, handle_duplicates
    order,         \* the listing order of directories
    fs,            \* file path -> [content, mtime]
    dirs,          \* the directories that exist
    fs0,           \* the files before the call
    dirs0,         \* the directories before the call
    stats,         \* verschoben, uebersprungen, fehler, kategorien
    file_hashes,   \* hash -> target path
    stack,         \* os.walk: directories still to list
    root,          \* os.walk: the directory being handled
    files,         \* its files not handled yet
    pc,            \* "idle", "start", "walk", "done", "aborted"
    now,           \* the last value time.time() returned
    faultsLeft,    \* I/O failures the environment may still inject
    logged,        \* what the loop did with the last file
    enumerated,    \* files the loop has taken from os.walk
    previewStats,  \* << the stats an earlier preview returned >>, or << >>
    ext,           \* classifier input
    classified     \* classifier outputs

runVars ==
    << args, order, fs, dirs, fs0, dirs0, stats, file_hashes, stack, root, files,
       pc, now, faultsLeft, logged, enumerated, previewStats >>

vars == << runVars, ext, classified >>

(***************************************************************************)
(* Helpers of organize_files_by_type.                                      *)
(***************************************************************************)
\* if not destination_dir: destination_dir = source_dir
Destination == IF args.destination_dir = << >> THEN source_dir ELSE args.destination_dir

\* A check for the category folders of the destination only.
PathUnderDestinationCategory(path) ==
    \E c \in CategoryNames :
        /\ Len(path) > Len(Destination)
        /\ SubSeq(path, 1, Len(Destination) + 1) = Append(Destination, c)

\* any(category in root for category in FILE_CATEGORIES.keys()): a substring
\* test on the path; no category name holds a separator, so a hit lies
\* inside one segment.
PathHasCategory(path) ==
    \E i \in DOMAIN path : \E c \in CategoryNames :
        IsSubstring(Spell[c], Spell[path[i]])

\* os.makedirs: the directory and its missing ancestors.
makedirs(ds, d) == ds \cup { SubSeq(d, 1, k) : k \in 1..Len(d) }

create_directory_if_not_exists(ds, d) == IF d \in ds THEN ds ELSE makedirs(ds, d)

\* Directory creation that forgets the preview flag.
EnsureDirectoryAlways(ds, d) == create_directory_if_not_exists(ds, d)

\* The directories the run may create: none in a preview.
EnsureDirectory(ds, d) ==
    IF args.preview THEN ds ELSE create_directory_if_not_exists(ds, d)

\* md5 of the file's bytes, or None when reading fails.
get_file_hash(fl, path, fails) ==
    IF fails \/ path \notin DOMAIN fl THEN None ELSE << "md5", fl[path].content >>

\* f"{name}_{timestamp}{ext}"
RenamedFilename(filename, timestamp) ==
    [filename EXCEPT !.suffix = Append(@, timestamp)]

\* file_hash and file_hash in file_hashes
IsKnownDuplicate(file_hash, fh) == file_hash # None /\ file_hash \in DOMAIN fh

\* file_hashes[file_hash] = target_path
Put(fh, k, v) == [x \in DOMAIN fh \cup {k} |-> IF x = k THEN v ELSE fh[x]]

\* shutil.move onto a file path: the target is replaced when it exists.
shutil_move(fl, src, dst) ==
    [p \in (DOMAIN fl \ {src}) \cup {dst} |-> IF p = dst THEN fl[src] ELSE fl[p]]

\* shutil.move that copied the file and then failed to remove the source.
CopyOnly(fl, src, dst) ==
    [p \in DOMAIN fl \cup {dst} |-> IF p = dst THEN fl[src] ELSE fl[p]]

CountMovedOnly(st, category) == [st EXCEPT !.verschoben = @ + 1]

CountMoved(st, category) ==
    [st EXCEPT !.verschoben = @ + 1, !.kategorien[category] = @ + 1]

CountSkipped(st) == [st EXCEPT !.uebersprungen = @ + 1]

CountErrorAsMoved(st) == [st EXCEPT !.verschoben = @ + 1]

CountError(st) == [st EXCEPT !.fehler = @ + 1]

\* if category not in stats["kategorien"]: stats["kategorien"][category] = 0
WithCategory(st, category) ==
    IF category \in DOMAIN st.kategorien THEN st
    ELSE [st EXCEPT !.kategorien = @ @@ (category :> 0)]

EmptyStats == [verschoben |-> 0, uebersprungen |-> 0, fehler |-> 0, kategorien |-> << >>]

NoEvent ==
    [op |-> "none", source |-> NoPath, planned |-> NoPath, target |-> NoPath,
     existed |-> FALSE, hash_failed |-> FALSE, duplicate |-> FALSE]

Faults == {"none", "getmtime", "mkdir", "hash", "move", "unlink"}

(***************************************************************************)
(* One pass of the try block (lines 109-156) for `filename` in `root`,     *)
(* classified into `category`.                                             *)
(* `fault` is the I/O call that fails in this pass, if any, and `time` is   *)
(* what time.time() returns if the pass reads the clock.  The result holds *)
(* the new filesystem, stats and hash index, what was logged, whether the  *)
(* pass reached the failing call and whether it read the clock.            *)
(***************************************************************************)
TryBody(filename, category, fault, time) ==
    LET source_path == << root, filename >>
        st0         == WithCategory(stats, category)
        base_dir    == Append(Destination, category)
        target_dir  == IF args.include_date
                         THEN Append(base_dir, DateStr(fs[source_path].mtime))
                         ELSE base_dir
        needs_mkdir == args.include_date /\ ~args.preview /\ target_dir \notin dirs
        dirs1       == IF args.include_date THEN EnsureDirectory(dirs, target_dir)
                       ELSE dirs
        planned     == << target_dir, filename >>
        existed     == planned \in DOMAIN fs
        file_hash   == get_file_hash(fs, source_path, fault = "hash")
        duplicate   == existed /\ IsKnownDuplicate(file_hash, file_hashes)
        renames     == duplicate /\ args.handle_duplicates = "rename"
        target_path == IF renames
                         THEN << target_dir, RenamedFilename(filename, time) >>
                         ELSE planned
        fh1         == IF existed THEN Put(file_hashes, file_hash, target_path)
                       ELSE file_hashes
        ev(op, tgt) == [op |-> op, source |-> source_path, planned |-> planned,
                        target |-> tgt, existed |-> existed,
                        hash_failed |-> existed /\ file_hash = None,
                        duplicate |-> duplicate]
        out(f, d, st, fh, e, fired) ==
            [fs |-> f, dirs |-> d, stats |-> st, file_hashes |-> fh, logged |-> e,
             fired |-> fired, timed |-> renames /\ e.target # NoPath]
    IN  IF args.include_date /\ fault = "getmtime"
          THEN out(fs, dirs, CountError(st0), file_hashes,
                   [NoEvent EXCEPT !.op = "error", !.source = source_path], TRUE)
        ELSE IF needs_mkdir /\ fault = "mkdir"
          THEN out(fs, dirs, CountError(st0), file_hashes,
                   [NoEvent EXCEPT !.op = "error", !.source = source_path], TRUE)
        ELSE IF duplicate /\ args.handle_duplicates = "skip"
          THEN out(fs, dirs1, CountSkipped(st0), file_hashes,
                   ev("duplicate_skipped", NoPath), FALSE)
        ELSE IF args.preview
          THEN out(fs, dirs1, CountMoved(st0, category), fh1,
                   ev("preview", target_path), existed /\ fault = "hash")
        ELSE IF fault = "move" \/ target_dir \notin dirs1
          THEN out(fs, dirs1, CountError(st0), fh1, ev("error", target_path), TRUE)
        ELSE IF fault = "unlink"
          THEN out(CopyOnly(fs, source_path, target_path), dirs1, CountError(st0),
                   fh1, ev("error", target_path), TRUE)
        ELSE out(shutil_move(fs, source_path, target_path), dirs1,
                 CountMoved(st0, category), fh1, ev("moved", target_path),
                 existed /\ fault = "hash")

(***************************************************************************)
(* Initial states: the arguments of one call, a tree, a listing order.     *)
(***************************************************************************)
ArgSets ==
    [destination_dir : {<< >>, << "dst" >>}, preview : BOOLEAN,
     include_date : BOOLEAN, handle_duplicates : Strategies]

NoClassification == [done |-> FALSE, plain |-> "", lower |-> "", upper |-> ""]

InitRun(budget) ==
    /\ args \in ArgSets
    /\ order \in DirOrders
    /\ \E C \in Trees :
         /\ \A c \in C : c[1][1][1] = "dst" => args.destination_dir = << "dst" >>
         /\ fs = TreeFiles(C)
         /\ dirs = UNION { makedirs({source_dir}, c[1][1]) : c \in C } \cup {source_dir}
    /\ fs0 = fs
    /\ dirs0 = dirs
    /\ stats = EmptyStats
    /\ file_hashes = << >>
    /\ stack = << >>
    /\ root = << >>
    /\ files = {}
    /\ pc = "start"
    /\ now = 0
    /\ faultsLeft = budget
    /\ logged = NoEvent
    /\ enumerated = 0
    /\ previewStats = << >>

Init ==
    /\ InitRun(MaxFaults)
    /\ ext = << >>
    /\ classified = NoClassification

(***************************************************************************)
(* os.walk(source_dir), top-down.                                          *)
(***************************************************************************)
Reverse(seq) == [i \in DOMAIN seq |-> seq[Len(seq) + 1 - i]]

\* The sub-directories of d, in listing order.
ListDirs(d) ==
    LET present(n) == Append(d, n) \in dirs
        names == SelectSeq(order, present)
    IN  [i \in DOMAIN names |-> Append(d, names[i])]

ListFiles(d) == { p[2] : p \in { q \in DOMAIN fs : q[1] = d } }

\* Lines 85-99: the stats, the hash index, and (outside a preview) the
\* category directories.  k = 0: every directory is made.  k > 0: making the
\* k-th category's directory fails, after the earlier ones were made; the
\* exception leaves organize_files_by_type.
Start ==
    /\ pc = "start"
    /\ \E k \in 0..Len(Categories) :
         LET upto == IF k = 0 THEN Len(Categories) ELSE k - 1
             made == { Append(Destination, Categories[i]) : i \in 1..upto }
             dirs1 == UNION { EnsureDirectory(dirs, d) : d \in made } \cup dirs
         IN  /\ k > 0 => /\ ~args.preview
                         /\ faultsLeft > 0
                         /\ Append(Destination, Categories[k]) \notin dirs
             /\ dirs' = dirs1
             /\ faultsLeft' = IF k > 0 THEN faultsLeft - 1 ELSE faultsLeft
             /\ pc' = IF k > 0 THEN "aborted" ELSE "walk"
             /\ stack' = IF k > 0 THEN << >> ELSE << source_dir >>
    /\ stats' = EmptyStats
    /\ file_hashes' = << >>
    /\ root' = << >>
    /\ files' = {}
    /\ logged' = NoEvent
    /\ enumerated' = 0
    /\ UNCHANGED << args, order, fs0, dirs0, fs, now, previewStats, ext, classified >>

\* os.walk takes the next directory: its files are listed now, its
\* sub-directories are pushed in listing order.
WalkNext ==
    /\ pc = "walk"
    /\ files = {}
    /\ stack # << >>
    /\ LET top == stack[Len(stack)]
       IN  /\ root' = top
           /\ files' = ListFiles(top)
           /\ stack' = SubSeq(stack, 1, Len(stack) - 1) \o Reverse(ListDirs(top))
    /\ UNCHANGED << args, order, fs0, dirs0, fs, dirs, stats, file_hashes, pc, now, faultsLeft,
                    logged, enumerated, previewStats, ext, classified >>

\* Lines 105-107: a file under a path that holds a category name.
SkipOrganized ==
    /\ pc = "walk"
    /\ PathHasCategory(root)
    /\ \E filename \in files :
         /\ files' = files \ {filename}
         /\ logged' = [NoEvent EXCEPT !.op = "organized_skipped",
                                      !.source = << root, filename >>]
    /\ stats' = CountSkipped(stats)
    /\ enumerated' = enumerated + 1
    /\ UNCHANGED << args, order, fs0, dirs0, fs, dirs, file_hashes, stack, root, pc, now,
                    faultsLeft, previewStats, ext, classified >>

\* Lines 109-156: any other file.
ProcessFile ==
    /\ pc = "walk"
    /\ ~PathHasCategory(root)
    /\ \E filename \in files, fault \in Faults, time \in now..MaxTime :
         \E category \in {get_category_for_extension(Spell[filename.ext])} :
         \E r \in {TryBody(filename, category, fault, time)} :
             /\ fault # "none" => faultsLeft > 0 /\ r.fired
             /\ time # now => r.timed
             /\ now' = time
             /\ fs' = r.fs
             /\ dirs' = r.dirs
             /\ stats' = r.stats
             /\ file_hashes' = r.file_hashes
             /\ logged' = r.logged
             /\ files' = files \ {filename}
             /\ faultsLeft' = IF fault = "none" THEN faultsLeft ELSE faultsLeft - 1
    /\ enumerated' = enumerated + 1
    /\ UNCHANGED << args, order, fs0, dirs0, stack, root, pc, previewStats, ext, classified >>

\* Line 158: os.walk is exhausted, the stats are returned.
Return ==
    /\ pc = "walk"
    /\ files = {}
    /\ stack = << >>
    /\ pc' = "done"
    /\ UNCHANGED << args, order, fs0, dirs0, fs, dirs, stats, file_hashes, stack, root, files,
                    now, faultsLeft, logged, enumerated, previewStats, ext,
                    classified >>

Next == Start \/ WalkNext \/ SkipOrganized \/ ProcessFile \/ Return

Spec == Init /\ [][Next]_vars

\* The loop is sequential code: a step that can be taken is taken.
FairSpec == Init /\ [][Next]_vars /\ WF_vars(Next)

(***************************************************************************)
(* A preview followed by the real run on the filesystem the preview left,  *)
(* with the same arguments and no I/O failure in either.                   *)
(***************************************************************************)
InitPair ==
    /\ InitRun(0)
    /\ args.preview
    /\ ext = << >>
    /\ classified = NoClassification

\* main() is run again without --preview.
Rerun ==
    /\ pc = "done"
    /\ args.preview
    /\ previewStats = << >>
    /\ previewStats' = << stats >>
    /\ args' = [args EXCEPT !.preview = FALSE]
    /\ pc' = "start"
    /\ UNCHANGED << order, fs, dirs, fs0, dirs0, stats, file_hashes, stack, root,
                    files, now, faultsLeft, logged, enumerated, ext, classified >>

NextPair == Start \/ WalkNext \/ SkipOrganized \/ ProcessFile \/ Return \/ Rerun

PairSpec == InitPair /\ [][NextPair]_vars

(***************************************************************************)
(* The classifier alone, on bounded extensions.                            *)
(***************************************************************************)
ExtAlphabet ==
    { ".", "c", "C", "h", "H", "s", "S", "LONG_S", "i", "I", "DOTLESS_I",
      "k", "KELVIN", "t" }

SeqsUpTo(S, n) == UNION { [1..k -> S] : k \in 0..n }

ListedExtensions == UNION { FILE_CATEGORIES[c] : c \in CategoryNames }

ClassifyInputs ==
    SeqsUpTo(ExtAlphabet, MaxExtLen)
        \cup ListedExtensions
        \cup { str_upper(e) : e \in ListedExtensions }

InitClassify ==
    /\ ext \in ClassifyInputs
    /\ classified = NoClassification
    /\ args = [destination_dir |-> << >>, preview |-> TRUE, include_date |-> FALSE,
               handle_duplicates |-> "rename"]
    /\ order = << >>
    /\ fs = << >>
    /\ dirs = {source_dir}
    /\ fs0 = fs
    /\ dirs0 = dirs
    /\ stats = EmptyStats
    /\ file_hashes = << >>
    /\ stack = << >>
    /\ root = << >>
    /\ files = {}
    /\ pc = "idle"
    /\ now = 0
    /\ faultsLeft = 0
    /\ logged = NoEvent
    /\ enumerated = 0
    /\ previewStats = << >>

\* get_category_for_extension on ext, on ext.lower() and on ext.upper().
Classify ==
    /\ ~classified.done
    /\ classified' = [done  |-> TRUE,
                      plain |-> get_category_for_extension(ext),
                      lower |-> get_category_for_extension(str_lower(ext)),
                      upper |-> get_category_for_extension(str_upper(ext))]
    /\ UNCHANGED << runVars, ext >>

NextClassify == Classify

ClassifySpec == InitClassify /\ [][NextClassify]_vars

(***************************************************************************)
(* Properties.                                                             *)
(***************************************************************************)
NoFaultUsed == faultsLeft = MaxFaults

Finished == pc = "done" /\ ~args.preview /\ NoFaultUsed

TwinA == << << "src", "sub1" >>, FileName("a", ".pdf") >>

TwinB == << << "src", "sub2" >>, FileName("a", ".pdf") >>

\* The source holds exactly two files, same name, same content, in two
\* plain subfolders.
TwinsOnly ==
    /\ DOMAIN fs0 = {TwinA, TwinB}
    /\ fs0[TwinA].content = fs0[TwinB].content

IsPrefix(a, b) == Len(a) <= Len(b) /\ SubSeq(b, 1, Len(a)) = a

\* The files in the destination's folder of `category` (date folders included).
InCategoryFolder(category) ==
    { p \in DOMAIN fs : IsPrefix(Append(Destination, category), p[1]) }

\* C1: with strategy skip, a finished real run over two same-named files of
\* identical content in different subfolders leaves exactly one of them in
\* the destination category folder and the other where it was, and returns
\* moved = 1, skipped = 1, errors = 0.
C1_SkipKeepsOneTwin ==
    (Finished /\ args.handle_duplicates = "skip" /\ TwinsOnly) =>
        /\ Cardinality(InCategoryFolder("Dokumente")) = 1
        /\ Cardinality(DOMAIN fs \cap {TwinA, TwinB}) = 1
        /\ stats.verschoben = 1
        /\ stats.uebersprungen = 1
        /\ stats.fehler = 0

\* C2: with strategy rename, a finished real run loses no file (as many
\* files exist after it as before), and over two same-named files of
\* identical content in different subfolders both end in the destination
\* category folder under distinct names, one with a timestamp suffix.
C2_RenameKeepsBoth ==
    (Finished /\ args.handle_duplicates = "rename") =>
        /\ Cardinality(DOMAIN fs) = Cardinality(DOMAIN fs0)
        /\ TwinsOnly =>
             /\ Cardinality(InCategoryFolder("Dokumente")) = 2
             /\ \E p \in InCategoryFolder("Dokumente") : p[2].suffix # << >>

\* C3: a preview run leaves the filesystem as it was: the same files with the
\* same contents, the same directories.
C3_PreviewLeavesFilesystem == args.preview => fs = fs0 /\ dirs = dirs0

C3_Witness ==
    /\ args.preview
    /\ pc = "done"
    /\ args.include_date
    /\ stats.verschoben >= 2

\* C4: the stats a real run returns equal the stats the preview of the same
\* tree with the same arguments returned.
C4_PreviewStatsMatch ==
    (pc = "done" /\ previewStats # << >>) => stats = previewStats[1]

RootOnly == fs0 # << >> /\ \A p \in DOMAIN fs0 : p[1] = source_dir

CategoryOfFile(p) == get_category_for_extension(Spell[p[2].ext])

\* C5: a finished real run with no date folders and strategy rename over
\* files that all lie in the source root ends with every file at
\* destination/category/filename and returns moved = number of files,
\* skipped = 0, errors = 0 and per category the number of its files.
C5_RootFilesSorted ==
    (Finished /\ ~args.include_date /\ args.handle_duplicates = "rename" /\ RootOnly) =>
        /\ \A p \in DOMAIN fs0 :
             LET q == << Append(Destination, CategoryOfFile(p)), p[2] >>
             IN  q \in DOMAIN fs /\ fs[q] = fs0[p]
        /\ stats.verschoben = Cardinality(DOMAIN fs0)
        /\ stats.uebersprungen = 0
        /\ stats.fehler = 0
        /\ stats.kategorien =
             [c \in { CategoryOfFile(p) : p \in DOMAIN fs0 } |->
                Cardinality({ p \in DOMAIN fs0 : CategoryOfFile(p) = c })]

HasCategorySegment(path) == \E i \in DOMAIN path : path[i] \in CategoryNames

\* C6: the step that handles a file whose directory path has a segment equal
\* to a category name changes no file, no directory, no hash and no
\* per-category count, and adds exactly one to the skipped counter.
C6_OrganizedFileUntouched ==
    [][ (pc = "walk" /\ HasCategorySegment(root) /\ enumerated' = enumerated + 1) =>
          /\ fs' = fs
          /\ dirs' = dirs
          /\ file_hashes' = file_hashes
          /\ stats' = [stats EXCEPT !.uebersprungen = @ + 1] ]_vars

C6_Witness ==
    /\ logged.op = "organized_skipped"
    /\ HasCategorySegment(logged.source[1])
    /\ ~args.preview
    /\ stats.verschoben > 0

CountOf(st, category) ==
    IF category \in DOMAIN st.kategorien THEN st.kategorien[category] ELSE 0

\* C7: a pass of the loop in which an I/O call fails adds exactly one to the
\* error counter, leaves the moved counter and every per-category count as
\* they were, and leaves the traversal going with the other files still to
\* be handled; and a run that has entered the traversal returns.
C7_FailureIsCounted ==
    /\ [][ (enumerated' = enumerated + 1 /\ logged'.op = "error") =>
             /\ stats'.fehler = stats.fehler + 1
             /\ stats'.verschoben = stats.verschoben
             /\ stats'.uebersprungen = stats.uebersprungen
             /\ \A c \in CategoryNames : CountOf(stats', c) = CountOf(stats, c)
             /\ pc' = "walk"
             /\ stack' = stack
             /\ root' = root
             /\ files' = files \ {logged'.source[2]}
             /\ Cardinality(files') = Cardinality(files) - 1 ]_vars
    /\ (pc = "walk") ~> (pc = "done")

C7_Witness ==
    /\ pc = "done"
    /\ stats.fehler = 1
    /\ stats.verschoben >= 1
    /\ logged.op = "moved"

\* C8 (amended): the classifier returns a category for every extension: the
\* one whose list holds the lower-cased extension when exactly one does, the
\* catch-all when none does; it returns the same for the extension and its
\* lower-casing, and the same for its upper-casing whenever lower-casing the
\* upper-cased extension gives the lower-cased extension (every ASCII one).
C8_ClassifierLowerCases ==
    classified.done =>
        LET e == str_lower(ext)
            owners == { c \in CategoryNames : e \in FILE_CATEGORIES[c] }
        IN  /\ classified.plain \in CategoryNames
            /\ Cardinality(owners) = 1 => classified.plain \in owners
            /\ owners = {} => classified.plain = "Andere"
            /\ classified.lower = classified.plain
            /\ str_lower(str_upper(ext)) = e => classified.upper = classified.plain

C8_Witness ==
    /\ classified.done
    /\ ext = << ".", "S", "H" >>
    /\ classified.plain = "Code"
    /\ classified.upper = "Code"

\* C8 (as claimed): as above, with the same category for the upper-cased
\* extension for every extension.
C8_ClassifierCaseInsensitive ==
    classified.done =>
        LET e == str_lower(ext)
            owners == { c \in CategoryNames : e \in FILE_CATEGORIES[c] }
        IN  /\ classified.plain \in CategoryNames
            /\ Cardinality(owners) = 1 => classified.plain \in owners
            /\ owners = {} => classified.plain = "Andere"
            /\ classified.lower = classified.plain
            /\ classified.upper = classified.plain

\* C9: a file whose planned target exists and whose hash could not be
\* computed is moved only to a renamed path, never onto the planned target.
C9_HashFailureRenames ==
    (logged.op = "moved" /\ logged.hash_failed) =>
        /\ logged.target # logged.planned
        /\ logged.target[2].suffix # << >>

RECURSIVE SumOver(_, _)
SumOver(f, S) ==
    IF S = {} THEN 0
    ELSE LET x == CHOOSE y \in S : TRUE IN f[x] + SumOver(f, S \ {x})

\* C10: in the traversal and at return, moved + skipped + errors is the
\* number of files taken from the traversal, and the per-category counts add
\* up to moved.
C10_Accounting ==
    pc \in {"walk", "done"} =>
        /\ stats.verschoben + stats.uebersprungen + stats.fehler = enumerated
        /\ SumOver(stats.kategorien, DOMAIN stats.kategorien) = stats.verschoben

C10_Witness ==
    /\ pc = "done"
    /\ stats.verschoben > 0
    /\ stats.uebersprungen > 0
    /\ stats.fehler > 0
    /\ \E c \in DOMAIN stats.kategorien : stats.kategorien[c] = 0

====
